---- MODULE Spec2Model ----
(***************************************************************************)
(* A model of imgdiff.py: main() as a sequential state machine, from the   *)
(* parsed arguments to the exit status of the process.                     *)
(*                                                                         *)
(* The file system is modelled by what the program reads of it: for each   *)
(* image the tree of files (directory, name) -> file, where a file is a    *)
(* regular file (content, read permission) or a symbolic link (target).    *)
(* External commands (diffoscope, tar) are nondeterministic outcomes.      *)
(***************************************************************************)
EXTENDS Integers, Sequences, FiniteSets, TLC

(***************************************************************************)
(* Bounds of the model.                                                    *)
(***************************************************************************)
\* Most files the two images hold together.
MaxFiles == 3

\* Relative directories and file names, each in lexicographic order
\* (the order list.sort() gives).
DirOrd == <<".", "sub">>
NameOrd == <<"a.txt", "b.txt">>

Range(s) == {s[i] : i \in 1..Len(s)}
Dirs == Range(DirOrd)
Names == Range(NameOrd)
Slots == Dirs \X Names

Contents == {"hello", "world"}
Targets == {"A", "B"}

----------------------------------------------------------------------------
(* Files and trees *)

Reg(c, m) == [type |-> "reg", data |-> c, mode |-> m]
Link(t) == [type |-> "link", data |-> t, mode |-> "r"]

\* mode "r": readable; "fix": unreadable, and chmod u+r by this user works;
\* "deny": unreadable, and chmod fails too (the file is another user's).
PlainFiles == {Reg(c, "r") : c \in Contents}
SpecialFiles == {Link(t) : t \in Targets} \cup {Reg("hello", "fix"), Reg("hello", "deny")}
Files == PlainFiles \cup SpecialFiles

EmptyTree == [s \in {} |-> Reg("hello", "r")]

\* The directories of a tree that hold at least one file, and a directory's files.
TreeDirs(t) == {s[1] : s \in DOMAIN t}
TreeNames(t, d) == {s[2] : s \in {x \in DOMAIN t : x[1] = d}}

----------------------------------------------------------------------------
(* Sequences *)

Perms(S) ==
  {p \in [1..Cardinality(S) -> S] : \A i, j \in 1..Cardinality(S) : i # j => p[i] # p[j]}

\* list.sort() of the elements S, by the order ord.
SortBy(ord, S) == SelectSeq(ord, LAMBDA x : x \in S)

IndexOf(s, x) == CHOOSE i \in 1..Len(s) : s[i] = x

Without(s, x) == SelectSeq(s, LAMBDA y : y # x)

----------------------------------------------------------------------------
(* get_contents: the listing of a tree *)

\* A listing is file_dict in insertion order: a sequence of entries
\* [dir, names], names the keys of file_dict[dir] in insertion order.
ListDirs(l) == {l[i].dir : i \in 1..Len(l)}
HasDir(l, d) == d \in ListDirs(l)
Entry(l, d) == l[CHOOSE i \in 1..Len(l) : l[i].dir = d]
HasFile(l, d, f) == HasDir(l, d) /\ f \in Range(Entry(l, d).names)
ListPairs(l) == {s \in Slots : HasFile(l, s[1], s[2])}
\* A slip: the pop empties file_dict[dir].
PopFileAll(l, d, f) ==
  [i \in 1..Len(l) |-> IF l[i].dir = d THEN [l[i] EXCEPT !.names = <<>>] ELSE l[i]]
\* dict.pop(file, None) on file_dict[dir], and dict.pop(dir, None) on file_dict.
PopFile(l, d, f) ==
  [i \in 1..Len(l) |-> IF l[i].dir = d THEN [l[i] EXCEPT !.names = Without(@, f)] ELSE l[i]]
PopDir(l, d) == SelectSeq(l, LAMBDA e : e.dir # d)

\* os.walk is top-down: the root directory comes before its subdirectories;
\* without the sort the order of a directory's entries is the file system's.
WalkOrders(t, sorted) ==
  IF sorted THEN {SortBy(DirOrd, TreeDirs(t))}
  ELSE {p \in Perms(TreeDirs(t)) : \A i \in 1..Len(p) : p[i] = "." => i = 1}
NameOrders(t, d, sorted) ==
  IF sorted THEN {SortBy(NameOrd, TreeNames(t, d))} ELSE Perms(TreeNames(t, d))

\* The listings get_contents can return: only directories that hold a file
\* get a key (file_dict[path] is created in the loop over files).
GetContents(t, sorted) ==
  UNION {
    {[i \in 1..Len(ds) |-> [dir |-> ds[i], names |-> no[ds[i]]]] :
        no \in {x \in [TreeDirs(t) -> UNION {Perms(S) : S \in SUBSET Names}] :
                  \A d \in TreeDirs(t) : x[d] \in NameOrders(t, d, sorted)}}
    : ds \in WalkOrders(t, sorted)}

----------------------------------------------------------------------------
(* sha256sum and the comparison of two files *)

\* SHA-256 of a content; distinct contents have distinct digests.
Digest(c) == <<"sha256", c>>

\* What open() reads through a symbolic link: the content of its target.
LinkData(t) == IF t = "A" THEN "hello" ELSE "world"
Data(file) == IF file.type = "link" THEN LinkData(file.data) ELSE file.data

\* sha256sum(filename): [ok, digest, file], file the file afterwards. A
\* PermissionError at open() is retried once after chmod u+r; a second one,
\* or one from chmod itself, is raised to the caller (ok = FALSE).
Sha256sum(file) ==
  CASE file.mode = "r" -> [ok |-> TRUE, digest |-> Digest(Data(file)), file |-> file]
    [] file.mode = "fix" ->
         [ok |-> TRUE, digest |-> Digest(Data(file)), file |-> [file EXCEPT !.mode = "r"]]
    [] OTHER -> [ok |-> FALSE, digest |-> <<>>, file |-> file]

IsLink(file) == file.type = "link"
ReadLink(file) == file.data

\* A slip: the files are compared by checksum whether or not they are links.
CompareContent(f1, f2) ==
  LET h1 == Sha256sum(f1)
      h2 == Sha256sum(f2)
  IN IF ~h1.ok
     THEN [match |-> TRUE, perm |-> TRUE, hashed |-> <<1>>, f1 |-> f1, f2 |-> f2]
     ELSE IF ~h2.ok
     THEN [match |-> TRUE, perm |-> TRUE, hashed |-> <<1, 2>>, f1 |-> h1.file, f2 |-> f2]
     ELSE [match |-> h1.digest = h2.digest, perm |-> FALSE, hashed |-> <<1, 2>>,
           f1 |-> h1.file, f2 |-> h2.file]

\* Lines 128-140: match starts True; [match, perm, hashed, f1, f2] where perm
\* says a PermissionError was caught and hashed lists the sides sha256sum
\* was called on, in order.
Compare(f1, f2) ==
  IF IsLink(f1) \/ IsLink(f2)
  THEN [match |-> IsLink(f1) /\ IsLink(f2) /\ ReadLink(f1) = ReadLink(f2),
        perm |-> FALSE, hashed |-> <<>>, f1 |-> f1, f2 |-> f2]
  ELSE LET h1 == Sha256sum(f1)
           h2 == Sha256sum(f2)
       IN IF ~h1.ok
          THEN [match |-> TRUE, perm |-> TRUE, hashed |-> <<1>>, f1 |-> f1, f2 |-> f2]
          ELSE IF ~h2.ok
          THEN [match |-> TRUE, perm |-> TRUE, hashed |-> <<1, 2>>, f1 |-> h1.file, f2 |-> f2]
          ELSE [match |-> h1.digest = h2.digest, perm |-> FALSE, hashed |-> <<1, 2>>,
                f1 |-> h1.file, f2 |-> h2.file]

----------------------------------------------------------------------------
(* The state of a run *)

VARIABLES
  args,           \* the parsed command line: diffoscope, output_file, stats, sort
  image,          \* image[i]: the argument's kind and the tree it holds
  pc,             \* where main() is: start, setup, scan, loop, close, or how it ended
  si,             \* the image being set up
  root,           \* image[i].root: "None", "image" (the directory) or "tmp"
  tmp_dir,        \* image[i].tmp_dir exists
  fs,             \* the tree under image[i].root
  files,          \* image[i].files, the listings
  di, fi,         \* the loop over image1.files and over image1.files[dir]
  dj,             \* the loop over what is left of image2.files
  stats, ret,
  out, err,       \* what was written to output_handle and to standard error
  closed,         \* output_handle was closed
  exitcode,       \* the process's exit status; -1 while it runs
  files0,         \* history: the listings as get_contents returned them
  visits,         \* history: how often the loops took each directory
  cls,            \* history: the comparisons made, in order
  extractFailed,  \* history: tar ended unsuccessfully for image i
  run, prev, added  \* a second run on the trees with one file added

vars == <<args, image, pc, si, root, tmp_dir, fs, files, di, fi, dj, stats, ret,
          out, err, closed, exitcode, files0, visits, cls, extractFailed,
          run, prev, added>>

Args == [diffoscope : BOOLEAN, output_file : BOOLEAN, stats : BOOLEAN, sort : BOOLEAN]
Kinds == {"dir", "tar", "file"}

\* A written line: h the handle it was written to ("out": output_handle,
\* "err": error_handle, "stderr": sys.stderr), k which line, then its fields.
\* from is the image named first in the line, n a count, p a percentage in
\* hundredths of a percent.
Line(h, k, d, f, from, n) ==
  [h |-> h, k |-> k, dir |-> d, file |-> f, from |-> from, n |-> n, p |-> 0]
StatLine(k, from, n, p) ==
  [h |-> "out", k |-> k, dir |-> "-", file |-> "-", from |-> from, n |-> n, p |-> p]

\* error_handle is output_handle when an output file is given (line 71).
ToOut(lines) == SelectSeq(lines, LAMBDA l : l.h = "out" \/ (l.h = "err" /\ args.output_file))
ToErr(lines) == SelectSeq(lines, LAMBDA l : l.h = "stderr" \/ (l.h = "err" /\ ~args.output_file))
Emit(lines) == out' = out \o ToOut(lines) /\ err' = err \o ToErr(lines)

ZeroStats == [match |-> 0, missmatch |-> 0, missing1 |-> 0, missing2 |-> 0,
              dir_missing1 |-> 0, dir_missing2 |-> 0]

NoneAdded == [side |-> 0, dir |-> "-", file |-> "-"]
NoPrev == [stats |-> ZeroStats, out |-> <<>>, exitcode |-> -1, files0 |-> <<<<>>, <<>>>>]

\* The process ends with status code; how is "returned" (main returned ret),
\* "sys.exit" or "exception" (lines 214-218). Temporary directories are
\* removed by their finalizers on every way out.
Exit(how, code) ==
  /\ pc' = how
  /\ exitcode' = code
  /\ tmp_dir' = [i \in 1..2 |-> FALSE]

----------------------------------------------------------------------------
(* main(): arguments and images *)

\* Lines 73-78, diffoscope not asked for or found.
Start ==
  /\ pc = "start"
  /\ pc' = "setup"
  /\ UNCHANGED <<args, image, si, root, tmp_dir, fs, files, di, fi, dj, stats, ret, out, err,
                 closed, exitcode, files0, visits, cls, extractFailed, run, prev, added>>

\* Lines 73-78, "diffoscope --version" fails.
DiffoscopeMissing ==
  /\ pc = "start"
  /\ args.diffoscope
  /\ Emit(<<Line("err", "InstallDiffoscope", "-", "-", 0, 0)>>)
  /\ Exit("sys.exit", 1)
  /\ UNCHANGED <<args, image, si, root, fs, files, di, fi, dj, stats, ret,
                 closed, files0, visits, cls, extractFailed, run, prev, added>>

NextImage ==
  /\ si' = si + 1
  /\ pc' = IF si = 2 THEN "scan" ELSE "setup"

\* Lines 85-86 and 99-100: the image is a directory.
SetupDir ==
  /\ pc = "setup"
  /\ image[si].kind = "dir"
  /\ root' = [root EXCEPT ![si] = "image"]
  /\ NextImage
  /\ UNCHANGED <<args, image, tmp_dir, fs, files, di, fi, dj, stats, ret, out, err,
                 closed, exitcode, files0, visits, cls, extractFailed, run, prev, added>>

\* Lines 87-96 and 101-110: the image is a tar file. subprocess.run is called
\* without check=True, so it returns whatever tar's exit status is and the
\* except branch is never taken; ok is whether tar -xj unpacked the archive.
SetupTar(ok) ==
  /\ pc = "setup"
  /\ image[si].kind = "tar"
  /\ tmp_dir' = [tmp_dir EXCEPT ![si] = TRUE]
  /\ root' = [root EXCEPT ![si] = "tmp"]
  /\ fs' = [fs EXCEPT ![si] = IF ok THEN image[si].tree ELSE EmptyTree]
  /\ extractFailed' = [extractFailed EXCEPT ![si] = ~ok]
  /\ NextImage
  /\ UNCHANGED <<args, image, files, di, fi, dj, stats, ret, out, err,
                 closed, exitcode, files0, visits, cls, run, prev, added>>

ExtractOk == SetupTar(TRUE)
ExtractFails == SetupTar(FALSE)

\* Neither a directory nor a tar file: root stays None.
SetupNone ==
  /\ pc = "setup"
  /\ image[si].kind = "file"
  /\ NextImage
  /\ UNCHANGED <<args, image, root, tmp_dir, fs, files, di, fi, dj, stats, ret, out, err,
                 closed, exitcode, files0, visits, cls, extractFailed, run, prev, added>>

\* Lines 113-114.
Scan ==
  /\ pc = "scan"
  /\ root[1] # "None" /\ root[2] # "None"
  /\ \E l1 \in GetContents(fs[1], args.sort), l2 \in GetContents(fs[2], args.sort) :
       /\ files' = <<l1, l2>>
       /\ files0' = <<l1, l2>>
  /\ pc' = "loop"
  /\ UNCHANGED <<args, image, si, root, tmp_dir, fs, di, fi, dj, stats, ret, out, err,
                 closed, exitcode, visits, cls, extractFailed, run, prev, added>>

\* Lines 113-114 with a root of None: None.rstrip raises AttributeError, which
\* lines 214-218 turn into a traceback and status 1.
ScanCrash ==
  /\ pc = "scan"
  /\ root[1] = "None" \/ root[2] = "None"
  /\ Emit(<<Line("stderr", "Traceback", "-", "-", 0, 0)>>)
  /\ Exit("exception", 1)
  /\ UNCHANGED <<args, image, si, root, fs, files, di, fi, dj, stats, ret,
                 closed, files0, visits, cls, extractFailed, run, prev, added>>

----------------------------------------------------------------------------
(* main(): the comparison, lines 116-184 *)

\* A slip: the counter goes up by one whatever n is.
CountOnce(st, key, n) == IF args.stats THEN [st EXCEPT ![key] = @ + 1] ELSE st
\* stats[key] += n under "if args.stats".
Count(st, key, n) == IF args.stats THEN [st EXCEPT ![key] = @ + n] ELSE st

InLoop1 == pc = "loop" /\ di <= Len(files[1])
CurDir == files[1][di].dir
CurNames == files[1][di].names
\* A slip: the files of a directory taken last to first.
CurFileBackward == CurNames[Len(CurNames) + 1 - fi]
CurFile == CurNames[fi]

Visit(d) == visits' = [visits EXCEPT ![d] = @ + 1]

\* Lines 147-157: what a mismatch writes; dok is whether the diffoscope call
\* succeeded.
MissmatchLines(d, f, dok) ==
  <<Line("out", "Missmatch", d, f, 1, 0)>> \o
  (IF args.diffoscope
   THEN <<Line("out", "DiffoscopeHeader", d, f, 0, 0),
          IF dok THEN Line("out", "DiffoscopeOutput", d, f, 0, 0)
                 ELSE Line("err", "DiffoscopeFailed", d, f, 0, 0)>>
   ELSE <<>>)

\* Lines 127-159: a file of image1 that image2 has in the same directory.
CompareFile ==
  /\ InLoop1
  /\ HasDir(files[2], CurDir)
  /\ fi <= Len(CurNames)
  /\ HasFile(files[2], CurDir, CurFile)
  /\ LET d == CurDir
         f == CurFile
         r == Compare(fs[1][<<d, f>>], fs[2][<<d, f>>])
     IN /\ \E dok \in (IF ~r.match /\ args.diffoscope THEN BOOLEAN ELSE {TRUE}) :
             Emit((IF r.perm THEN <<Line("err", "PermissionError", d, f, 0, 0)>> ELSE <<>>) \o
                  (IF r.match THEN <<>> ELSE MissmatchLines(d, f, dok)))
        /\ stats' = Count(stats, IF r.match THEN "match" ELSE "missmatch", 1)
        /\ ret' = IF r.match THEN ret ELSE 1
        /\ fs' = [fs EXCEPT ![1][<<d, f>>] = r.f1, ![2][<<d, f>>] = r.f2]
        /\ files' = [files EXCEPT ![2] = PopFile(@, d, f)]
        /\ cls' = Append(cls, [dir |-> d, file |-> f, f1 |-> fs[1][<<d, f>>],
                               f2 |-> fs[2][<<d, f>>], match |-> r.match,
                               perm |-> r.perm, hashed |-> r.hashed])
        /\ IF fi = 1 THEN Visit(d) ELSE UNCHANGED visits
  /\ fi' = fi + 1
  /\ UNCHANGED <<args, image, pc, si, root, tmp_dir, di, dj, closed, exitcode, files0,
                 extractFailed, run, prev, added>>

\* Lines 160-164: a file of image1 that image2 lacks in a directory both have.
MissingFile1 ==
  /\ InLoop1
  /\ HasDir(files[2], CurDir)
  /\ fi <= Len(CurNames)
  /\ ~HasFile(files[2], CurDir, CurFile)
  /\ Emit(<<Line("out", "MissingFile", CurDir, CurFile, 1, 0)>>)
  /\ stats' = Count(stats, "missing1", 1)
  /\ ret' = 1
  /\ IF fi = 1 THEN Visit(CurDir) ELSE UNCHANGED visits
  /\ fi' = fi + 1
  /\ UNCHANGED <<args, image, pc, si, root, tmp_dir, fs, files, di, dj, closed, exitcode,
                 files0, cls, extractFailed, run, prev, added>>

\* Lines 166-170: one line for each file left in image2.files[dir].
LeftoverLines(d, names) ==
  [i \in 1..Len(names) |-> Line("out", "MissingFile", d, names[i], 2, 0)]
\* A slip: the loop over the files left in image2.files[dir] without ret = 1.
LeftoverRetKept(names) == ret
\* ret = 1 is in the loop's body.
LeftoverRet(names) == IF Len(names) > 0 THEN 1 ELSE ret

\* Lines 165-171: after image1's files of a directory both have.
LeftoverFiles ==
  /\ InLoop1
  /\ HasDir(files[2], CurDir)
  /\ fi > Len(CurNames)
  /\ LET left == Entry(files[2], CurDir).names
     IN /\ Emit(LeftoverLines(CurDir, left))
        /\ stats' = Count(stats, "missing2", Len(left))
        /\ ret' = LeftoverRet(left)
  /\ files' = [files EXCEPT ![2] = PopDir(@, CurDir)]
  /\ di' = di + 1
  /\ fi' = 1
  /\ UNCHANGED <<args, image, pc, si, root, tmp_dir, fs, dj, closed, exitcode, files0,
                 visits, cls, extractFailed, run, prev, added>>

\* A slip: the line without the number of files.
DirLineNoCount(d, from, names) == Line("out", "MissingDir", d, "-", from, 0)
\* Lines 173 and 180: "Missing Directory (with %i files)", len(files[dir]).
DirLine(d, from, names) == Line("out", "MissingDir", d, "-", from, Len(names))

\* Lines 172-177: a directory of image1.files that image2.files lacks.
MissingDir1 ==
  /\ InLoop1
  /\ ~HasDir(files[2], CurDir)
  /\ Emit(<<DirLine(CurDir, 1, CurNames)>>)
  /\ stats' = Count(Count(stats, "dir_missing1", 1), "missing1", Len(CurNames))
  /\ ret' = 1
  /\ Visit(CurDir)
  /\ di' = di + 1
  /\ UNCHANGED <<args, image, pc, si, root, tmp_dir, fs, files, fi, dj, closed, exitcode,
                 files0, cls, extractFailed, run, prev, added>>

\* Lines 179-184: a directory left in image2.files.
MissingDir2 ==
  /\ pc = "loop"
  /\ di > Len(files[1])
  /\ dj <= Len(files[2])
  /\ LET e == files[2][dj]
     IN /\ Emit(<<DirLine(e.dir, 2, e.names)>>)
        /\ stats' = Count(Count(stats, "dir_missing2", 1), "missing2", Len(e.names))
        /\ Visit(e.dir)
  /\ ret' = 1
  /\ dj' = dj + 1
  /\ UNCHANGED <<args, image, pc, si, root, tmp_dir, fs, files, di, fi, closed, exitcode,
                 files0, cls, extractFailed, run, prev, added>>

LoopsDone == pc = "loop" /\ di > Len(files[1]) /\ dj > Len(files[2])

----------------------------------------------------------------------------
(* main(): the statistics and the way out, lines 187-218 *)

FileTotal(st) == st.match + st.missmatch + st.missing1 + st.missing2
MissingTotal(st) == st.missing1 + st.missing2

\* '{:.2%}'.format(x/total), in hundredths of a percent.
Pct(x, total) == (20000 * x + total) \div (2 * total)

\* Lines 190-198.
StatsLines(st) ==
  LET t == FileTotal(st)
  IN <<StatLine("StatsHeader", 0, 0, 0),
       StatLine("StatsTotal", 0, t, 0),
       StatLine("StatsMatches", 0, st.match, Pct(st.match, t)),
       StatLine("StatsMisses", 0, st.missmatch, Pct(st.missmatch, t)),
       StatLine("StatsMissing", 0, MissingTotal(st), Pct(MissingTotal(st), t)),
       StatLine("StatsFiles", 1, st.missing1, 0),
       StatLine("StatsFiles", 2, st.missing2, 0),
       StatLine("StatsDirs", 1, st.dir_missing1, 0),
       StatLine("StatsDirs", 2, st.dir_missing2, 0)>>

\* Lines 187-198, some file was counted.
ReportStats ==
  /\ LoopsDone
  /\ args.stats
  /\ FileTotal(stats) # 0
  /\ Emit(StatsLines(stats))
  /\ pc' = "close"
  /\ UNCHANGED <<args, image, si, root, tmp_dir, fs, files, di, fi, dj, stats, ret,
                 closed, exitcode, files0, visits, cls, extractFailed, run, prev, added>>

\* Lines 187-192 with file_total = 0: the header and the total are written,
\* then stats['match']/file_total raises ZeroDivisionError, which lines
\* 214-218 turn into a traceback and status 1.
StatsDivByZero ==
  /\ LoopsDone
  /\ args.stats
  /\ FileTotal(stats) = 0
  /\ Emit(<<StatLine("StatsHeader", 0, 0, 0), StatLine("StatsTotal", 0, 0, 0),
            Line("stderr", "Traceback", "-", "-", 0, 0)>>)
  /\ Exit("exception", 1)
  /\ UNCHANGED <<args, image, si, root, fs, files, di, fi, dj, stats, ret,
                 closed, files0, visits, cls, extractFailed, run, prev, added>>

\* Lines 200-209 and 213, 218: main returns ret.
Finish ==
  /\ pc = "close" \/ (LoopsDone /\ ~args.stats)
  /\ closed' = args.output_file
  /\ Exit("returned", ret)
  /\ UNCHANGED <<args, image, si, root, fs, files, di, fi, dj, stats, ret, out, err,
                 files0, visits, cls, extractFailed, run, prev, added>>

----------------------------------------------------------------------------
(* The runs checked *)

\* Which image holds a file at each slot of S. The program reads nothing of
\* a file that only one image holds (not its type, content or mode), so such
\* a file is a readable regular file; a file both hold is any pair of kinds.
Shapes(S) ==
  {sh \in [S -> {"none", "left", "right", "both"}] :
     Cardinality({s \in S : sh[s] \in {"left", "right"}})
       + 2 * Cardinality({s \in S : sh[s] = "both"}) <= MaxFiles}
SideTree(sh, side, k) ==
  [s \in {x \in DOMAIN sh : sh[x] \in {side, "both"}} |->
     IF sh[s] = "both" THEN k[s] ELSE Reg("hello", "r")]
TreePairs(S, kinds) ==
  UNION {{<<SideTree(sh, "left", k1), SideTree(sh, "right", k2)>> :
            k1 \in [{s \in S : sh[s] = "both"} -> kinds],
            k2 \in [{s \in S : sh[s] = "both"} -> kinds]} : sh \in Shapes(S)}

\* Two directories: trees of every shape with plain files, and trees with
\* files of every kind in the root directory.
DirImages(p) == [i \in 1..2 |-> [kind |-> "dir", tree |-> p[i]]]
ShapePairs == {DirImages(p) : p \in TreePairs(Slots, PlainFiles)}
KindPairs == {DirImages(p) : p \in TreePairs({"."} \X Names, Files)}

\* Images of every kind, not both directories, each holding at most ./a.txt.
SmallImages ==
  [kind : {"dir", "tar"}, tree : {EmptyTree, [s \in {<<".", "a.txt">>} |-> Reg("hello", "r")]}]
    \cup {[kind |-> "file", tree |-> EmptyTree]}
SetupPairs == {im \in [1..2 -> SmallImages] : im[1].kind # "dir" \/ im[2].kind # "dir"}

ImagePairs == ShapePairs \cup KindPairs \cup SetupPairs

\* The state when main() is entered with arguments a on the images im.
Entered(a, im) ==
  /\ args = a
  /\ image = im
  /\ pc = "start"
  /\ si = 1
  /\ root = [i \in 1..2 |-> "None"]
  /\ tmp_dir = [i \in 1..2 |-> FALSE]
  /\ fs = [i \in 1..2 |-> IF im[i].kind = "dir" THEN im[i].tree ELSE EmptyTree]
  /\ files = <<<<>>, <<>>>>
  /\ di = 1 /\ fi = 1 /\ dj = 1
  /\ stats = ZeroStats
  /\ ret = 0
  /\ out = <<>> /\ err = <<>>
  /\ closed = FALSE
  /\ exitcode = -1
  /\ files0 = <<<<>>, <<>>>>
  /\ visits = [d \in Dirs |-> 0]
  /\ cls = <<>>
  /\ extractFailed = [i \in 1..2 |-> FALSE]

Init ==
  /\ \E a \in Args, im \in ImagePairs : Entered(a, im)
  /\ run = 1
  /\ prev = NoPrev
  /\ added = NoneAdded

\* The tree image i holds now: a directory's files as the run left them
\* (chmod by sha256sum stays), an archive's as packed.
TreeNow(i) == IF image[i].kind = "dir" THEN fs[i] ELSE image[i].tree

WithFile(t, s) == [x \in DOMAIN t \cup {s} |-> IF x = s THEN Reg("hello", "r") ELSE t[x]]

\* After a run that returned: one file that neither image holds is added
\* to one image, and the program is run again with the same arguments.
Rerun ==
  /\ pc = "returned"
  /\ run = 1
  /\ \E side \in 1..2, s \in Slots \ (DOMAIN TreeNow(1) \cup DOMAIN TreeNow(2)) :
       LET im == [i \in 1..2 |->
                    [kind |-> image[i].kind,
                     tree |-> IF i = side THEN WithFile(TreeNow(i), s) ELSE TreeNow(i)]]
       IN /\ image' = im
          /\ fs' = [i \in 1..2 |-> IF im[i].kind = "dir" THEN im[i].tree ELSE EmptyTree]
          /\ added' = [side |-> side, dir |-> s[1], file |-> s[2]]
  /\ prev' = [stats |-> stats, out |-> out, exitcode |-> exitcode, files0 |-> files0]
  /\ run' = 2
  /\ pc' = "start"
  /\ si' = 1
  /\ root' = [i \in 1..2 |-> "None"]
  /\ tmp_dir' = [i \in 1..2 |-> FALSE]
  /\ files' = <<<<>>, <<>>>>
  /\ di' = 1 /\ fi' = 1 /\ dj' = 1
  /\ stats' = ZeroStats
  /\ ret' = 0
  /\ out' = <<>> /\ err' = <<>>
  /\ closed' = FALSE
  /\ exitcode' = -1
  /\ files0' = <<<<>>, <<>>>>
  /\ visits' = [d \in Dirs |-> 0]
  /\ cls' = <<>>
  /\ extractFailed' = [i \in 1..2 |-> FALSE]
  /\ UNCHANGED args

Next ==
  \/ Start \/ DiffoscopeMissing
  \/ SetupDir \/ ExtractOk \/ ExtractFails \/ SetupNone
  \/ Scan \/ ScanCrash
  \/ CompareFile \/ MissingFile1 \/ LeftoverFiles \/ MissingDir1 \/ MissingDir2
  \/ ReportStats \/ StatsDivByZero \/ Finish

Spec == Init /\ [][Next]_vars

\* Runs on plain files with the report on standard output, each followed by
\* a second run with one file added.
InitAdd ==
  /\ \E a \in {x \in Args : ~x.output_file}, im \in ShapePairs \cup SetupPairs : Entered(a, im)
  /\ run = 1
  /\ prev = NoPrev
  /\ added = NoneAdded

NextAdd == Next \/ Rerun

SpecAdd == InitAdd /\ [][NextAdd]_vars

----------------------------------------------------------------------------
(* What the claims speak of *)

Ended == pc \in {"returned", "sys.exit", "exception"}

\* Both loops of the comparison have run to their end.
ReconcileDone ==
  \/ LoopsDone
  \/ pc \in {"close", "returned"}
  \/ pc = "exception" /\ root[1] # "None" /\ root[2] # "None"

\* The lines of the report that tell a difference.
DiffKinds == {"Missmatch", "MissingFile", "MissingDir"}
DiffLines == SelectSeq(out, LAMBDA l : l.k \in DiffKinds)
Written(k, d, f, from) ==
  Cardinality({i \in 1..Len(out) :
     out[i].k = k /\ out[i].dir = d /\ out[i].file = f /\ out[i].from = from})

\* The (directory, file) pairs of the listings get_contents returned.
Left == ListPairs(files0[1])
Right == ListPairs(files0[2])
LeftDirs == ListDirs(files0[1])
RightDirs == ListDirs(files0[2])
FilesIn(l, d) == {s \in ListPairs(l) : s[1] = d}

----------------------------------------------------------------------------
(* C1 *)

\* C1: when the comparison is through, ret is 0 if and only if no file
\* mismatch, no missing file and no missing directory was reported, and
\* else 1; a run that returns exits with ret.
C1_StatusIffNoDifference ==
  /\ ret \in {0, 1}
  /\ ReconcileDone => (ret = 0 <=> DiffLines = <<>>)
  /\ pc = "returned" => exitcode = ret

\* A run that returned 1 after a file only image2 has in a shared directory.
C1_Witness ==
  /\ pc = "returned"
  /\ exitcode = 1
  /\ Len(DiffLines) = 1
  /\ DiffLines[1].k = "MissingFile" /\ DiffLines[1].from = 2

----------------------------------------------------------------------------
(* C2 *)

\* C2: when the comparison is through, every directory of either listing
\* was taken exactly once by the loops, and with statistics enabled every
\* (directory, file) pair of either listing is counted once: files of both
\* listings in match or missmatch, files of the left only in missing1,
\* files of the right only in missing2, so the four counters sum to the
\* number of pairs in the union.
C2_CountedOnce ==
  ReconcileDone =>
    /\ \A d \in Dirs : visits[d] = IF d \in LeftDirs \cup RightDirs THEN 1 ELSE 0
    /\ args.stats =>
         /\ FileTotal(stats) = Cardinality(Left \cup Right)
         /\ stats.match + stats.missmatch = Cardinality(Left \cap Right)
         /\ stats.missing1 = Cardinality(Left \ Right)
         /\ stats.missing2 = Cardinality(Right \ Left)

\* A finished run with statistics that counted a compared file and a file
\* of the same directory missing from image2, two pairs in all.
C2_Witness ==
  /\ pc = "returned"
  /\ args.stats
  /\ stats.match + stats.missmatch = 1
  /\ stats.missing1 = 1
  /\ stats.dir_missing1 = 0
  /\ FileTotal(stats) = 2
  /\ Cardinality(Left \cup Right) = 2

----------------------------------------------------------------------------
(* C3 *)

\* Same directories, same names, and each pair of files of one name equal
\* in type and in content or link target.
SameTrees(t1, t2) ==
  /\ DOMAIN t1 = DOMAIN t2
  /\ \A s \in DOMAIN t1 : t1[s].type = t2[s].type /\ t1[s].data = t2[s].data

\* C3, as the claim states it: for identical trees the comparison reports no
\* mismatch and nothing missing, the run ends with status 0 and, with
\* statistics, match is the number of files and every other counter 0.
C3_IdenticalTreesClean ==
  (Ended /\ ReconcileDone /\ SameTrees(fs[1], fs[2])) =>
    /\ DiffLines = <<>>
    /\ exitcode = 0
    /\ args.stats => stats = [ZeroStats EXCEPT !.match = Cardinality(DOMAIN fs[1])]

----------------------------------------------------------------------------
(* C5 *)

\* C5, as the claim states it: with statistics requested and no file
\* counted, the statistics are reported in full and the run returns the
\* status of the comparison.
C5_ZeroTotalReported ==
  (Ended /\ ReconcileDone /\ args.stats /\ FileTotal(stats) = 0) =>
    /\ pc = "returned"
    /\ exitcode = ret
    /\ \E i \in 1..Len(out) : out[i].k = "StatsDirs"

----------------------------------------------------------------------------
(* C6 *)

\* What error_handle received.
ErrorLog == IF args.output_file THEN out ELSE err
NotCompared == {i \in 1..Len(cls) : cls[i].perm}

\* C6, as the claim states it: a comparison that failed with a permission
\* error is reported as such, counts neither as a match nor as a mismatch,
\* does not set ret, and the comparison goes on.
C6_PermissionErrorNotCounted ==
  /\ \A i \in NotCompared :
       \E j \in 1..Len(ErrorLog) :
          /\ ErrorLog[j].k = "PermissionError"
          /\ ErrorLog[j].dir = cls[i].dir /\ ErrorLog[j].file = cls[i].file
  /\ args.stats => stats.match + stats.missmatch = Len(cls) - Cardinality(NotCompared)
  /\ (DiffLines = <<>>) => ret = 0
  /\ (NotCompared # {} /\ Ended) => pc = "returned"

----------------------------------------------------------------------------
(* C9 *)

\* C9, as the claim states it: once tar has failed for an image no tree is
\* scanned or compared, and the run ends with the failure reported and
\* status 1.
C9_ExtractionFailureAborts ==
  (\E i \in 1..2 : extractFailed[i]) =>
    /\ pc \in {"setup", "scan", "sys.exit", "exception"}
    /\ files0 = <<<<>>, <<>>>>
    /\ pc = "sys.exit" =>
         /\ exitcode = 1
         /\ \E j \in 1..Len(ErrorLog) : ErrorLog[j].k = "UnpackError"

----------------------------------------------------------------------------
(* C7 *)

\* C7: a file both images hold, one side at least a symbolic link, is a
\* match exactly when both are links with the same target, and sha256sum is
\* not called for it; two files that are not links are a match exactly when
\* their checksums are equal. A mismatch is what writes "File Missmatch".
C7_SymlinkClassification ==
  \A i \in 1..Len(cls) :
    LET c == cls[i]
        link1 == c.f1.type = "link"
        link2 == c.f2.type = "link"
    IN /\ (link1 \/ link2) =>
            /\ c.match <=> (link1 /\ link2 /\ c.f1.data = c.f2.data)
            /\ c.hashed = <<>>
            /\ ~c.perm
       /\ (~link1 /\ ~link2 /\ ~c.perm) =>
            /\ c.hashed = <<1, 2>>
            /\ c.match <=> (c.f1.data = c.f2.data)
       /\ Written("Missmatch", c.dir, c.file, 1) = IF c.match THEN 0 ELSE 1

\* A link to A, whose content is "hello", compared with a regular file
\* "hello": a mismatch.
C7_Witness ==
  \E i \in 1..Len(cls) :
    /\ cls[i].f1 = Link("A")
    /\ cls[i].f2 = Reg("hello", "r")
    /\ ~cls[i].match
    /\ Written("Missmatch", cls[i].dir, cls[i].file, 1) = 1

----------------------------------------------------------------------------
(* C8 *)

\* Nothing but the missing-directory line speaks of directory d.
NoFileLines(d) ==
  /\ \A j \in 1..Len(out) : out[j].dir = d => out[j].k = "MissingDir"
  /\ \A j \in 1..Len(err) : err[j].dir # d
  /\ \A j \in 1..Len(cls) : cls[j].dir # d

\* One missing-directory line for d, from image `from`, with d's file count.
OneDirLine(d, from) ==
  /\ Written("MissingDir", d, "-", from) = 1
  /\ Written("MissingDir", d, "-", 3 - from) = 0
  /\ \A j \in 1..Len(out) :
       (out[j].k = "MissingDir" /\ out[j].dir = d) =>
          out[j].n = Cardinality(FilesIn(files0[from], d))
  /\ NoFileLines(d)

FileLinesFrom(from) ==
  Cardinality({j \in 1..Len(out) : out[j].k = "MissingFile" /\ out[j].from = from})

DirsReported ==
  /\ \A d \in LeftDirs \ RightDirs : OneDirLine(d, 1)
  /\ \A d \in RightDirs \ LeftDirs : OneDirLine(d, 2)

\* The counters after the missing directories: one per directory, its files
\* in the missing-file counter of the same direction beside the files
\* reported one by one, match and missmatch for compared files only.
DirsCounted ==
  /\ stats.dir_missing1 = Cardinality(LeftDirs \ RightDirs)
  /\ stats.dir_missing2 = Cardinality(RightDirs \ LeftDirs)
  /\ stats.missing1 = Cardinality({s \in Left : s[1] \notin RightDirs}) + FileLinesFrom(1)
  /\ stats.missing2 = Cardinality({s \in Right : s[1] \notin LeftDirs}) + FileLinesFrom(2)
  /\ stats.match + stats.missmatch = Len(cls)

\* C8 as amended: a directory of one listing only gets one missing-directory
\* line with its file count and no line or comparison for its files; with
\* statistics enabled the counters of that direction take 1 and the file
\* count, and match and missmatch nothing.
C8_MissingDirectory ==
  (ReconcileDone /\ LeftDirs # RightDirs) => (DirsReported /\ (args.stats => DirsCounted))

\* C8 as the claim states it: the counters take them whatever the flags are.
C8_Original == (ReconcileDone /\ LeftDirs # RightDirs) => (DirsReported /\ DirsCounted)

\* With statistics, a directory of two files that only image1 has.
C8_Witness ==
  /\ pc = "returned"
  /\ args.stats
  /\ \E d \in LeftDirs \ RightDirs : Cardinality(FilesIn(files0[1], d)) = 2
  /\ stats.dir_missing1 = 1
  /\ stats.missing1 = 2

----------------------------------------------------------------------------
(* C10 *)

IndexIn(seq, x) == IF x \in Range(seq) THEN IndexOf(seq, x) ELSE 0
DirIndex(l, d) == IF HasDir(l, d) THEN CHOOSE i \in 1..Len(l) : l[i].dir = d ELSE 0
NamesOf(l, d) == IF HasDir(l, d) THEN Entry(l, d).names ELSE <<>>

\* Where the claim puts a line: image1's directories in listing order, in
\* each image1's files in listing order and then image2's other files in
\* their listing order; image2's other directories after all of these.
Place(l) ==
  IF l.dir \in LeftDirs
  THEN <<DirIndex(files0[1], l.dir),
         IF l.k = "MissingDir" THEN 0
         ELSE IF l.from = 1 THEN IndexIn(NamesOf(files0[1], l.dir), l.file)
         ELSE Len(NamesOf(files0[1], l.dir)) + IndexIn(NamesOf(files0[2], l.dir), l.file)>>
  ELSE <<Len(files0[1]) + DirIndex(files0[2], l.dir), 0>>

Before(p, q) == p[1] < q[1] \/ (p[1] = q[1] /\ p[2] < q[2])

\* C10: the lines that report differences are written in that order.
C10_ReportOrder ==
  \A i, j \in 1..Len(DiffLines) :
    i < j => Before(Place(DiffLines[i]), Place(DiffLines[j]))

\* A report of a file only image1 has, a file only image2 has in the same
\* directory and, after them, a directory only image2 has.
C10_Witness ==
  /\ pc = "returned"
  /\ Len(DiffLines) = 3
  /\ DiffLines[1].k = "MissingFile" /\ DiffLines[1].from = 1
  /\ DiffLines[2].k = "MissingFile" /\ DiffLines[2].from = 2
  /\ DiffLines[1].dir = DiffLines[2].dir
  /\ DiffLines[3].k = "MissingDir" /\ DiffLines[3].from = 2

----------------------------------------------------------------------------
(* C4, checked on SpecAdd *)

Other(side) == 3 - side

\* The second run returned (as the first did), and the trees it scanned are
\* those the first scanned with the one file added to one of them.
SecondDone ==
  /\ run = 2
  /\ pc = "returned"
  /\ ListPairs(files0[added.side]) =
       ListPairs(prev.files0[added.side]) \cup {<<added.dir, added.file>>}
  /\ ListPairs(files0[Other(added.side)]) = ListPairs(prev.files0[Other(added.side)])

WrittenBefore(k, d, f, from) ==
  Cardinality({i \in 1..Len(prev.out) :
     prev.out[i].k = k /\ prev.out[i].dir = d /\ prev.out[i].file = f
       /\ prev.out[i].from = from})

\* One missing-file line for the added file, named as the file of the image
\* it was added to.
OneFileEvent ==
  /\ Written("MissingFile", added.dir, added.file, added.side) = 1
  /\ Written("MissingFile", added.dir, added.file, Other(added.side)) = 0
  /\ Written("Missmatch", added.dir, added.file, 1) = 0

\* The report tells the differences it told before, and that line.
SameEventsElse ==
  \A k \in DiffKinds, d \in Dirs, f \in Names \cup {"-"}, from \in 1..2 :
    Written(k, d, f, from) =
      WrittenBefore(k, d, f, from) +
        (IF <<k, d, f, from>> = <<"MissingFile", added.dir, added.file, added.side>>
         THEN 1 ELSE 0)

\* The missing-file counter of that direction is one more, the others as before.
OneMoreCounted ==
  stats = [prev.stats EXCEPT ![IF added.side = 1 THEN "missing1" ELSE "missing2"] = @ + 1]

AddedDirShared == added.dir \in ListDirs(prev.files0[1]) \cap ListDirs(prev.files0[2])

\* C4 as amended: a file added to one image, in a directory that both
\* listings already had, gives one missing-file line for it and no other
\* change of the report; with statistics enabled that direction's
\* missing-file counter is one more and the other counters are as before.
\* ./a.txt in image1 against an image with no file gives one
\* missing-directory line for "." with 1 file, missing1 = dir_missing1 = 1
\* with statistics, and status 1.
C4_AddedFile ==
  /\ (SecondDone /\ AddedDirShared) =>
        /\ OneFileEvent
        /\ SameEventsElse
        /\ args.stats => OneMoreCounted
  /\ (pc = "returned" /\ Left = {<<".", "a.txt">>} /\ Right = {}) =>
        /\ DiffLines = <<Line("out", "MissingDir", ".", "-", 1, 1)>>
        /\ exitcode = 1
        /\ args.stats =>
             stats = [ZeroStats EXCEPT !.missing1 = 1, !.dir_missing1 = 1]

\* C4 as the claim states it, the counters read with statistics enabled:
\* whatever directory the file is added to.
C4_Original ==
  /\ SecondDone =>
        /\ OneFileEvent
        /\ args.stats => OneMoreCounted
  /\ (pc = "returned" /\ Left = {<<".", "a.txt">>} /\ Right = {}) =>
        /\ DiffLines = <<Line("out", "MissingFile", ".", "a.txt", 1, 0)>>
        /\ exitcode = 1
        /\ args.stats => stats = [ZeroStats EXCEPT !.missing1 = 1]

\* With statistics, a file added to image2 in a directory where a file of
\* both images had been compared.
C4_Witness ==
  /\ SecondDone
  /\ AddedDirShared
  /\ args.stats
  /\ added.side = 2
  /\ Len(cls) = 1 /\ cls[1].dir = added.dir
  /\ stats.missing2 = prev.stats.missing2 + 1
  /\ Written("MissingFile", added.dir, added.file, 2) = 1

====
